---------------------------- MODULE Spec2Model ----------------------------
(***************************************************************************)
(* A model of go-tiled's ebiten renderer (package render): the Renderer    *)
(* with its tile cache and canvas, the orthogonal engine, and the          *)
(* TilesetCache.                                                           *)
(*                                                                         *)
(* The canvas (Renderer.Result) is kept as the list of DrawImage calls     *)
(* made on it since it was allocated; Raster evaluates such a list to      *)
(* pixels.  A pixel is <<c, a>>: one premultiplied colour channel and the  *)
(* alpha channel, both in 0..ChanMax.  An image is a sequence of rows of   *)
(* pixels.                                                                 *)
(***************************************************************************)
EXTENDS Integers, Sequences, FiniteSets, TLC

VARIABLES
    m,          \* Renderer.m: the map handed to NewRendererWithFileSystem
    r,          \* "none" before construction, "ok" a Renderer, "nil" none returned
    Result,     \* Renderer.Result: [w, h, draws]
    tileCache,  \* Renderer.tileCache: global tile ID -> image
    tcache,     \* TilesetCache.cache: tileset name -> (local ID -> image)
    fs,         \* the file system behind open: source -> "ok" | "missing" | "corrupt"
    flaky,      \* the sources whose file may change between calls
    call,       \* the last call made: [op, a, b, err, img]
    ev,         \* what the last call did, in order: opens, decodes, draws, ...
    decoded,    \* the sources that some call of the Renderer has decoded successfully
    retry       \* the last call resolved the tile that the call before it
                \* failed to open or decode

vars == <<m, r, Result, tileCache, tcache, fs, flaky, call, ev, decoded, retry>>

---------------------------------------------------------------------------
(* Bounds of the model. *)

\* channel depth: a channel value is in 0..ChanMax (255 in the 8-bit raster)
ChanMax == 4
\* most objects in an object group
MaxObjs == 3
\* a render call is made only on a canvas holding fewer draws than this
MaxDraws == 3
\* an index handed to an indexed accessor is at most this far past the
\* length of its sequence (and at least -1)
IdxOver == 0
\* a map of the engine is at most MaxGrid cells wide and high, of tiles at
\* most MaxTile pixels wide and high
MaxGrid == 2
MaxTile == 2

Half == ChanMax \div 2

---------------------------------------------------------------------------
(* Errors. *)

ErrUnsupportedOrientation == "tiled/render: unsupported orientation"
ErrUnsupportedRenderOrder == "tiled/render: unsupported render order"
ErrOutOfBounds == "tiled/render: index out of bounds"
ErrOpen == "open: no such file"
ErrDecode == "image: unknown format"
ErrTileNotFound == "Tile image not found in tileset"
ErrNoTilesetTile == "Tile ID not found in tileset"
ErrInvalidTileGID == "tiled: invalid tile GID"
Panic == "panic: index out of range"
nil == "nil"

NoImage == << >>

---------------------------------------------------------------------------
(* Images: the stand-ins of image.Decode, SubImage and package imaging. *)

ImgH(img) == Len(img)
ImgW(img) == IF Len(img) = 0 THEN 0 ELSE Len(img[1])

\* The pixels of the image files.  a.png and c.png hold two opaque 2x2
\* tiles side by side, s.png two tiles with translucent and clear pixels;
\* b0.png and b1.png are single 2x2 tiles.
FilePixels(src) ==
    LET O(c) == <<c, ChanMax>>
        T(c) == <<c, Half>>
        Z    == <<0, 0>>
    IN CASE src = "a.png" -> << <<O(1), O(2), O(ChanMax), O(Half)>>,
                                <<O(Half), O(ChanMax), O(1), O(0)>> >>
         [] src = "c.png" -> << <<O(0), O(0), O(2), O(2)>>,
                                <<O(1), O(1), O(0), O(1)>> >>
         [] src = "s.png" -> << <<T(1), Z, T(Half), O(1)>>,
                                <<O(ChanMax), T(0), Z, Z>> >>
         [] src = "b0.png" -> << <<O(ChanMax), O(0)>>, <<O(0), O(1)>> >>
         [] src = "b1.png" -> << <<O(1), O(1)>>, <<O(ChanMax), O(0)>> >>
         [] OTHER -> NoImage

Sources == {"a.png", "c.png", "s.png", "b0.png", "b1.png"}

\* image.Rectangle.Intersect with the image's bounds, then the pixels inside
SubImage(img, rect) ==
    LET x0 == IF rect.x0 < 0 THEN 0 ELSE rect.x0
        y0 == IF rect.y0 < 0 THEN 0 ELSE rect.y0
        x1 == IF rect.x1 > ImgW(img) THEN ImgW(img) ELSE rect.x1
        y1 == IF rect.y1 > ImgH(img) THEN ImgH(img) ELSE rect.y1
    IN IF x1 <= x0 \/ y1 <= y0 THEN NoImage
       ELSE [y \in 1..(y1 - y0) |-> [x \in 1..(x1 - x0) |-> img[y0 + y][x0 + x]]]

\* imaging.FlipH: dst(x, y) = src(w-1-x, y)
FlipH(img) ==
    [y \in 1..ImgH(img) |-> [x \in 1..ImgW(img) |-> img[y][ImgW(img) + 1 - x]]]

\* imaging.FlipV: dst(x, y) = src(x, h-1-y)
FlipV(img) ==
    [y \in 1..ImgH(img) |-> [x \in 1..ImgW(img) |-> img[ImgH(img) + 1 - y][x]]]

\* imaging.Rotate270 (270 degrees counter-clockwise): the result is h wide
\* and w high, dst(x, y) = src(y, h-1-x)
Rotate270(img) ==
    [y \in 1..ImgW(img) |-> [x \in 1..ImgH(img) |-> img[ImgH(img) + 1 - x][y]]]

---------------------------------------------------------------------------
(* The orthogonal engine. *)

\* GetFinalImageSize with the tile width and height exchanged
GetFinalImageSizeSwapped(mp) ==
    [w |-> mp.Width * mp.TileHeight, h |-> mp.Height * mp.TileWidth]

\* OrthogonalRendererEngine.GetFinalImageSize
GetFinalImageSize(mp) ==
    [w |-> mp.Width * mp.TileWidth, h |-> mp.Height * mp.TileHeight]

\* RotateTileImage with the horizontal flip made before the diagonal one
RotateTileImageHorizontalFirst(tile, img) ==
    LET Diagonal(t) == IF tile.DiagonalFlip THEN FlipH(Rotate270(t)) ELSE t
        Horizontal(t) == IF tile.HorizontalFlip THEN FlipH(t) ELSE t
        Vertical(t) == IF tile.VerticalFlip THEN FlipV(t) ELSE t
    IN Vertical(Diagonal(Horizontal(img)))

\* OrthogonalRendererEngine.RotateTileImage
RotateTileImage(tile, img) ==
    LET Diagonal(t) == IF tile.DiagonalFlip THEN FlipH(Rotate270(t)) ELSE t
        Horizontal(t) == IF tile.HorizontalFlip THEN FlipH(t) ELSE t
        Vertical(t) == IF tile.VerticalFlip THEN FlipV(t) ELSE t
    IN Vertical(Horizontal(Diagonal(img)))

\* ebiten.GeoM, restricted to what the renderer builds: a diagonal scale
\* (sx, sy given as fractions <<num, den>>), a rotation in degrees applied
\* after it, and a translation.
GeoMIdentity ==
    [sx |-> <<1, 1>>, sy |-> <<1, 1>>, rot |-> 0, tx |-> 0, ty |-> 0]

\* GeoM.Translate
Translate(g, x, y) == [g EXCEPT !.tx = @ + x, !.ty = @ + y]

\* GeoM.Scale by the fractions x and y: the translation is scaled as well
Scale(g, x, y) ==
    [g EXCEPT !.sx = <<@[1] * x[1], @[2] * x[2]>>,
              !.sy = <<@[1] * y[1], @[2] * y[2]>>,
              !.tx = (@ * x[1]) \div x[2],
              !.ty = (@ * y[1]) \div y[2]]

\* GeoM.Rotate
Rotate(g, deg) == [g EXCEPT !.rot = @ + deg]

\* GetTilePosition with the scale made before the translation
GetTilePositionScaleFirst(mp, x, y) ==
    Translate(Scale(GeoMIdentity, <<(x + 1) * mp.TileWidth, 1>>,
                    <<(y + 1) * mp.TileHeight, 1>>),
              x * mp.TileWidth, y * mp.TileHeight)

\* OrthogonalRendererEngine.GetTilePosition
GetTilePosition(mp, x, y) ==
    Scale(Translate(GeoMIdentity, x * mp.TileWidth, y * mp.TileHeight),
          <<(x + 1) * mp.TileWidth, 1>>, <<(y + 1) * mp.TileHeight, 1>>)

---------------------------------------------------------------------------
(* The map model the renderer reads (package tiled). *)

\* Tileset.GetTileRect: tile tileID's rectangle in the tileset image,
\* row-major over the tileset's columns
GetTileRect(ts, tileID) ==
    LET x == (tileID % ts.Columns) * ts.TileWidth
        y == (tileID \div ts.Columns) * ts.TileHeight
    IN [x0 |-> x, y0 |-> y, x1 |-> x + ts.TileWidth, y1 |-> y + ts.TileHeight]

\* Tileset.GetTilesetTile: the tileset's own entry for a local ID, if any
GetTilesetTile(ts, tileID) ==
    IF tileID \in DOMAIN ts.Tiles
    THEN [src |-> ts.Tiles[tileID], err |-> nil]
    ELSE [src |-> "", err |-> ErrNoTilesetTile]

\* Map.TileGIDToTile: the last tileset whose FirstGID is at most gid owns it
\* (the flip bits of a GID are not modelled: objects carry none here)
TileGIDToTile(mp, gid) ==
    LET owners == {i \in 1..Len(mp.Tilesets) : mp.Tilesets[i].FirstGID <= gid}
    IN IF owners = {}
       THEN [tile |-> << >>, err |-> ErrInvalidTileGID]
       ELSE LET i == CHOOSE j \in owners : \A k \in owners : k <= j
            IN [tile |-> [ID |-> gid - mp.Tilesets[i].FirstGID, Tileset |-> i,
                          HorizontalFlip |-> FALSE, VerticalFlip |-> FALSE,
                          DiagonalFlip |-> FALSE, Nil |-> FALSE],
                err |-> nil]

\* utils.SortAnySlice: a stable sort by less.  An element's place is the
\* number of elements that sort before it: those less than it, and those
\* it ties with that come earlier in x.
SortAnySlice(x, less) ==
    LET n == Len(x)
        before(i) == {j \in 1..n : \/ less[x[j], x[i]]
                                   \/ (~less[x[i], x[j]] /\ j < i)}
    IN [k \in 1..n |-> x[CHOOSE i \in 1..n : Cardinality(before(i)) = k - 1]]

---------------------------------------------------------------------------
(* Events of a call, as the log ev records them. *)

Ev(k, s, o, e) == [k |-> k, s |-> s, o |-> o, e |-> e]
EvOpen(src) == Ev("open", src, 0, 0)
EvDecode(src) == Ev("decode", src, 0, 0)
EvAlloc == Ev("alloc", "", 0, 0)

\* Renderer.open: whether the file opens
open(files, f) == IF files[f] = "missing" THEN ErrOpen ELSE nil

\* image.Decode of an opened file
Decode(files, f) ==
    IF files[f] = "corrupt" THEN [img |-> NoImage, err |-> ErrDecode]
    ELSE [img |-> FilePixels(f), err |-> nil]

Put(cache, k, v) == [x \in (DOMAIN cache) \cup {k} |-> IF x = k THEN v ELSE cache[x]]

---------------------------------------------------------------------------
(* The Renderer's tile resolution.  Each returns [cache, ev, img, err]:    *)
(* the tile cache afterwards, the opens and decodes made, and the result.  *)

Resolved(cache, log, img, err) == [cache |-> cache, ev |-> log, img |-> img, err |-> err]

\* open f and image.Decode it: [ev, img, err]
OpenAndDecode(files, f) ==
    IF open(files, f) # nil
    THEN [ev |-> <<EvOpen(f)>>, img |-> NoImage, err |-> ErrOpen]
    ELSE [ev |-> <<EvOpen(f), EvDecode(f)>>, img |-> Decode(files, f).img,
          err |-> Decode(files, f).err]

\* getTileImageFromTile caching the image under the tile's local ID, the
\* tileset's first global ID left out of the key
getTileImageFromTileLocalKey(mp, files, cache, tile) ==
    LET ts == mp.Tilesets[tile.Tileset]
        Decoded(d) ==
            IF d.err # nil THEN Resolved(cache, d.ev, NoImage, d.err)
            ELSE Resolved(Put(cache, tile.ID, d.img), d.ev,
                          RotateTileImage(tile, d.img), nil)
        Found(tt) ==
            IF tt.err # nil THEN Resolved(cache, << >>, NoImage, tt.err)
            ELSE Decoded(OpenAndDecode(files, tt.src))
    IN Found(GetTilesetTile(ts, tile.ID))

\* getTileImageFromTile caching the image it returns, flipped as the tile is
getTileImageFromTileCachingRotated(mp, files, cache, tile) ==
    LET ts == mp.Tilesets[tile.Tileset]
        Decoded(d) ==
            IF d.err # nil THEN Resolved(cache, d.ev, NoImage, d.err)
            ELSE Resolved(Put(cache, ts.FirstGID + tile.ID, RotateTileImage(tile, d.img)),
                          d.ev, RotateTileImage(tile, d.img), nil)
        Found(tt) ==
            IF tt.err # nil THEN Resolved(cache, << >>, NoImage, tt.err)
            ELSE Decoded(OpenAndDecode(files, tt.src))
    IN Found(GetTilesetTile(ts, tile.ID))

\* Renderer.getTileImageFromTile
getTileImageFromTile(mp, files, cache, tile) ==
    LET ts == mp.Tilesets[tile.Tileset]
        Decoded(d) ==
            IF d.err # nil THEN Resolved(cache, d.ev, NoImage, d.err)
            ELSE Resolved(Put(cache, ts.FirstGID + tile.ID, d.img), d.ev,
                          RotateTileImage(tile, d.img), nil)
        Found(tt) ==
            IF tt.err # nil THEN Resolved(cache, << >>, NoImage, tt.err)
            ELSE Decoded(OpenAndDecode(files, tt.src))
    IN Found(GetTilesetTile(ts, tile.ID))

\* the precache loop of getTileImageFromTileset, from tile i on
RECURSIVE Precache(_, _, _, _)
Precache(cache, ts, eimg, i) ==
    IF i >= ts.TileCount THEN cache
    ELSE Precache(Put(cache, i + ts.FirstGID, SubImage(eimg, GetTileRect(ts, i))),
                  ts, eimg, i + 1)

\* getTileImageFromTileset without its precache loop: only the tile asked
\* for is cut from the image and cached
getTileImageFromTilesetOneTile(mp, files, cache, tile) ==
    LET ts == mp.Tilesets[tile.Tileset]
        Decoded(d) ==
            IF d.err # nil THEN Resolved(cache, d.ev, NoImage, d.err)
            ELSE IF tile.ID \in 0..(ts.TileCount - 1)
            THEN Resolved(Put(cache, tile.ID + ts.FirstGID,
                              SubImage(d.img, GetTileRect(ts, tile.ID))),
                          d.ev,
                          RotateTileImage(tile, SubImage(d.img, GetTileRect(ts, tile.ID))),
                          nil)
            ELSE Resolved(cache, d.ev, NoImage, ErrTileNotFound)
    IN Decoded(OpenAndDecode(files, ts.Image))

\* Renderer.getTileImageFromTileset
getTileImageFromTileset(mp, files, cache, tile) ==
    LET ts == mp.Tilesets[tile.Tileset]
        Filled(d, filled) ==
            IF tile.ID \in 0..(ts.TileCount - 1)
            THEN Resolved(filled, d.ev,
                          RotateTileImage(tile, filled[tile.ID + ts.FirstGID]), nil)
            ELSE Resolved(filled, d.ev, NoImage, ErrTileNotFound)
        Decoded(d) ==
            IF d.err # nil THEN Resolved(cache, d.ev, NoImage, d.err)
            ELSE Filled(d, Precache(cache, ts, d.img, 0))
    IN Decoded(OpenAndDecode(files, ts.Image))

\* r.getTileImage(tile) is entered
EvResolve(tile) == Ev("resolve", "", tile.Tileset, tile.ID)

\* getTileImage returning the cached image as it is on a hit, without the
\* tile's flips
getTileImageHitUnrotated(mp, files, cache, tile) ==
    LET ts == mp.Tilesets[tile.Tileset]
        Logged(R) == [R EXCEPT !.ev = <<EvResolve(tile)>> \o @]
    IN IF (ts.FirstGID + tile.ID) \in DOMAIN cache
       THEN Resolved(cache, <<EvResolve(tile)>>, cache[ts.FirstGID + tile.ID], nil)
       ELSE IF ts.Image = ""
       THEN Logged(getTileImageFromTile(mp, files, cache, tile))
       ELSE Logged(getTileImageFromTileset(mp, files, cache, tile))

\* Renderer.getTileImage
getTileImage(mp, files, cache, tile) ==
    LET ts == mp.Tilesets[tile.Tileset]
        Logged(R) == [R EXCEPT !.ev = <<EvResolve(tile)>> \o @]
    IN IF (ts.FirstGID + tile.ID) \in DOMAIN cache
       THEN Resolved(cache, <<EvResolve(tile)>>,
                     RotateTileImage(tile, cache[ts.FirstGID + tile.ID]), nil)
       ELSE IF ts.Image = ""
       THEN Logged(getTileImageFromTile(mp, files, cache, tile))
       ELSE Logged(getTileImageFromTileset(mp, files, cache, tile))

---------------------------------------------------------------------------
(* Rendering.  A render in progress is S = [cache, draws, ev, err]: the    *)
(* tile cache, the draws on the canvas, the log, and the error that        *)
(* stopped it (nil while it runs).                                         *)

Begin(cache, draws) == [cache |-> cache, draws |-> draws, ev |-> << >>, err |-> nil]

Fail(S, err) == [S EXCEPT !.err = err]

\* if err != nil { return err }, and otherwise on with rest
OrElse(S, rest(_)) == IF S.err # nil THEN S ELSE rest(S)

\* Result.DrawImage(img, {GeoM: geom, ColorScale: alpha}) by element e of o
DrawImage(S, img, geom, alpha, o, e) ==
    [S EXCEPT !.draws = Append(@, [img |-> img, geom |-> geom, alpha |-> alpha]),
              !.ev = Append(@, Ev("draw", "", o, e))]

Min(a, b) == IF a < b THEN a ELSE b

\* source-over blending of the pixel src, its alpha scaled by alpha (the
\* colour is left as it is: ColorScale.SetA), over the pixel dst
Blend(dst, src, alpha) ==
    LET Over(a) ==
            << Min(ChanMax, src[1] + (dst[1] * (ChanMax - a)) \div ChanMax),
               Min(ChanMax, a + (dst[2] * (ChanMax - a)) \div ChanMax) >>
    IN Over((src[2] * alpha) \div ChanMax)

\* one draw made on the pixels pix: the image scaled and moved by the
\* draw's GeoM, sampled at the pixel centres and clipped to the canvas.
\* Only unrotated draws are evaluated (the layers' draws).
Paint(pix, d) ==
    LET U(px) == ((2 * (px - d.geom.tx) + 1) * d.geom.sx[2]) \div (2 * d.geom.sx[1])
        V(py) == ((2 * (py - d.geom.ty) + 1) * d.geom.sy[2]) \div (2 * d.geom.sy[1])
        Covered(px, py) ==
            /\ d.geom.rot = 0
            /\ px >= d.geom.tx /\ U(px) < ImgW(d.img)
            /\ py >= d.geom.ty /\ V(py) < ImgH(d.img)
    IN [y \in DOMAIN pix |->
           [x \in DOMAIN pix[y] |->
               IF Covered(x - 1, y - 1)
               THEN Blend(pix[y][x], d.img[V(y - 1) + 1][U(x - 1) + 1], d.alpha)
               ELSE pix[y][x]]]

RECURSIVE PaintAll(_, _, _)
PaintAll(pix, draws, k) ==
    IF k > Len(draws) THEN pix ELSE PaintAll(Paint(pix, draws[k]), draws, k + 1)

\* the pixels of a canvas: its draws made in order on transparent black
Raster(canvas) ==
    PaintAll([y \in 1..canvas.h |-> [x \in 1..canvas.w |-> <<0, 0>>]], canvas.draws, 1)

\* r.getTileImage(tile) within a render: the render after it, with the
\* image in img
Resolve(mp, files, S, tile) ==
    LET Got(R) == [cache |-> R.cache, draws |-> S.draws, ev |-> S.ev \o R.ev,
                   err |-> R.err, img |-> R.img]
    IN Got(getTileImage(mp, files, S.cache, tile))

Drop(R) == [cache |-> R.cache, draws |-> R.draws, ev |-> R.ev, err |-> R.err]

\* the loops of _renderLayer passing over a cell whose tile fails to
\* resolve instead of returning the error
RECURSIVE LayerCellsPassingErrors(_, _, _, _, _, _, _)
LayerCellsPassingErrors(mp, files, S, layer, x, y, i) ==
    LET Drawn(R) ==
            IF R.err # nil
            THEN LayerCellsPassingErrors(mp, files, [Drop(R) EXCEPT !.err = nil],
                                         layer, x + 1, y, i + 1)
            ELSE LayerCellsPassingErrors(mp, files,
                            DrawImage(Drop(R), R.img, GetTilePosition(mp, x, y),
                                      layer.Opacity, layer.ID, i),
                            layer, x + 1, y, i + 1)
    IN IF y >= mp.Height THEN S
       ELSE IF x >= mp.Width
       THEN LayerCellsPassingErrors(mp, files, S, layer, 0, y + 1, i)
       ELSE IF i >= Len(layer.Tiles) THEN Fail(S, Panic)
       ELSE IF layer.Tiles[i + 1].Nil
       THEN LayerCellsPassingErrors(mp, files, S, layer, x + 1, y, i + 1)
       ELSE Drawn(Resolve(mp, files, S, layer.Tiles[i + 1]))

\* the loops of _renderLayer with a bare continue at an empty cell: the
\* tile index is not advanced
RECURSIVE LayerCellsNilKeepsIndex(_, _, _, _, _, _, _)
LayerCellsNilKeepsIndex(mp, files, S, layer, x, y, i) ==
    LET Drawn(R) ==
            IF R.err # nil THEN Drop(R)
            ELSE LayerCellsNilKeepsIndex(mp, files,
                            DrawImage(Drop(R), R.img, GetTilePosition(mp, x, y),
                                      layer.Opacity, layer.ID, i),
                            layer, x + 1, y, i + 1)
    IN IF y >= mp.Height THEN S
       ELSE IF x >= mp.Width
       THEN LayerCellsNilKeepsIndex(mp, files, S, layer, 0, y + 1, i)
       ELSE IF i >= Len(layer.Tiles) THEN Fail(S, Panic)
       ELSE IF layer.Tiles[i + 1].Nil
       THEN LayerCellsNilKeepsIndex(mp, files, S, layer, x + 1, y, i)
       ELSE Drawn(Resolve(mp, files, S, layer.Tiles[i + 1]))

\* the loops of Renderer._renderLayer, at cell (x, y) = tile i
RECURSIVE LayerCells(_, _, _, _, _, _, _)
LayerCells(mp, files, S, layer, x, y, i) ==
    LET Drawn(R) ==
            IF R.err # nil THEN Drop(R)
            ELSE LayerCells(mp, files,
                            DrawImage(Drop(R), R.img, GetTilePosition(mp, x, y),
                                      layer.Opacity, layer.ID, i),
                            layer, x + 1, y, i + 1)
    IN IF y >= mp.Height THEN S
       ELSE IF x >= mp.Width THEN LayerCells(mp, files, S, layer, 0, y + 1, i)
       ELSE IF i >= Len(layer.Tiles) THEN Fail(S, Panic)
       ELSE IF layer.Tiles[i + 1].Nil
       THEN LayerCells(mp, files, S, layer, x + 1, y, i + 1)
       ELSE Drawn(Resolve(mp, files, S, layer.Tiles[i + 1]))

\* _renderLayer without its test of the render order
_renderLayerAnyOrder(mp, files, S, layer) == LayerCells(mp, files, S, layer, 0, 0, 0)

\* Renderer._renderLayer
_renderLayer(mp, files, S, layer) ==
    IF mp.RenderOrder = "" \/ mp.RenderOrder = "right-down"
    THEN LayerCells(mp, files, S, layer, 0, 0, 0)
    ELSE Fail(S, ErrUnsupportedRenderOrder)

\* the transform renderOneObject draws o's image with
ObjectGeoM(o, img) ==
    LET Rotated(g) == IF o.Rotation # 0 THEN Rotate(g, o.Rotation) ELSE g
    IN Rotated(IF ImgW(img) = o.Width /\ ImgH(img) = o.Height
               THEN GeoMIdentity
               ELSE Scale(GeoMIdentity, <<o.Width, ImgW(img)>>,
                          <<o.Height, ImgH(img)>>))

\* renderOneObject without its test of the GID: an object without a tile
\* is looked up like any other
renderOneObjectNoGIDTest(mp, files, S, layer, o) ==
    LET Drawn(R) ==
            IF R.err # nil THEN Drop(R)
            ELSE DrawImage(Drop(R), R.img, ObjectGeoM(o, R.img), layer.Opacity,
                           layer.ID, o.ID)
        Looked(S1, t) ==
            IF t.err # nil THEN Fail(S1, t.err)
            ELSE Drawn(Resolve(mp, files, S1, t.tile))
    IN IF ~o.Visible THEN S
       ELSE Looked([S EXCEPT !.ev = Append(@, Ev("lookup", "", layer.ID, o.ID))],
                   TileGIDToTile(mp, o.GID))

\* Renderer.renderOneObject
renderOneObject(mp, files, S, layer, o) ==
    LET Drawn(R) ==
            IF R.err # nil THEN Drop(R)
            ELSE DrawImage(Drop(R), R.img, ObjectGeoM(o, R.img), layer.Opacity,
                           layer.ID, o.ID)
        Looked(S1, t) ==
            IF t.err # nil THEN Fail(S1, t.err)
            ELSE Drawn(Resolve(mp, files, S1, t.tile))
    IN IF ~o.Visible THEN S
       ELSE IF o.GID = 0 THEN S
       ELSE Looked([S EXCEPT !.ev = Append(@, Ev("lookup", "", layer.ID, o.ID))],
                   TileGIDToTile(mp, o.GID))

\* the comparison with X and Y taken for each other
ObjLessXFirst(a, b) == IF a.X # b.X THEN a.X < b.X ELSE a.Y < b.Y

\* the comparison _renderObjectGroup sorts by
ObjLess(a, b) == IF a.Y # b.Y THEN a.Y < b.Y ELSE a.X < b.X

\* the loop of _renderObjectGroup over the sorted objects, from the k-th on
RECURSIVE ObjectLoop(_, _, _, _, _, _)
ObjectLoop(mp, files, S, objectGroup, objs, k) ==
    IF k > Len(objs) THEN S
    ELSE OrElse(renderOneObject(mp, files, S, objectGroup, objs[k]),
                LAMBDA S1 : ObjectLoop(mp, files, S1, objectGroup, objs, k + 1))

\* Renderer._renderObjectGroup
_renderObjectGroup(mp, files, S, objectGroup) ==
    ObjectLoop(mp, files, S, objectGroup,
               SortAnySlice(objectGroup.Objects,
                            [a, b \in {objectGroup.Objects[i] :
                                           i \in DOMAIN objectGroup.Objects} |->
                                ObjLess(a, b)]), 1)

\* the first loop of _renderGroup, from the k-th child layer on
RECURSIVE GroupLayers(_, _, _, _, _)
GroupLayers(mp, files, S, layers, k) ==
    IF k > Len(layers) THEN S
    ELSE IF ~layers[k].Visible THEN GroupLayers(mp, files, S, layers, k + 1)
    ELSE OrElse(_renderLayer(mp, files, S, layers[k]),
                LAMBDA S1 : GroupLayers(mp, files, S1, layers, k + 1))

\* the second loop of _renderGroup, from the k-th child object group on
RECURSIVE GroupObjectGroups(_, _, _, _, _)
GroupObjectGroups(mp, files, S, ogs, k) ==
    IF k > Len(ogs) THEN S
    ELSE IF ~ogs[k].Visible THEN GroupObjectGroups(mp, files, S, ogs, k + 1)
    ELSE OrElse(_renderObjectGroup(mp, files, S, ogs[k]),
                LAMBDA S1 : GroupObjectGroups(mp, files, S1, ogs, k + 1))

\* _renderGroup with its two loops in the other order: the child object
\* groups first, then the child layers
_renderGroupObjectGroupsFirst(mp, files, S, group) ==
    OrElse(GroupObjectGroups(mp, files, S, group.ObjectGroups, 1),
           LAMBDA S1 : GroupLayers(mp, files, S1, group.Layers, 1))

\* Renderer._renderGroup
_renderGroup(mp, files, S, group) ==
    OrElse(GroupLayers(mp, files, S, group.Layers, 1),
           LAMBDA S1 : GroupObjectGroups(mp, files, S1, group.ObjectGroups, 1))

\* Go's s[i] for the 0-based index i: a negative index panics
InRange(i, s) == i >= 0 /\ i < Len(s)

\* Renderer.RenderLayer
RenderLayer(mp, files, S, id) ==
    IF id >= Len(mp.Layers) THEN Fail(S, ErrOutOfBounds)
    ELSE IF ~InRange(id, mp.Layers) THEN Fail(S, Panic)
    ELSE _renderLayer(mp, files, S, mp.Layers[id + 1])

\* RenderGroupLayer with its second bounds test off by one: a layerID equal
\* to the number of layers passes it and indexes past the end
RenderGroupLayerOffByOne(mp, files, S, groupID, layerID) ==
    IF groupID >= Len(mp.Groups) THEN Fail(S, ErrOutOfBounds)
    ELSE IF ~InRange(groupID, mp.Groups) THEN Fail(S, Panic)
    ELSE LET group == mp.Groups[groupID + 1]
         IN IF layerID > Len(group.Layers) THEN Fail(S, ErrOutOfBounds)
            ELSE IF ~InRange(layerID, group.Layers) THEN Fail(S, Panic)
            ELSE _renderLayer(mp, files, S, group.Layers[layerID + 1])

\* Renderer.RenderGroupLayer
RenderGroupLayer(mp, files, S, groupID, layerID) ==
    IF groupID >= Len(mp.Groups) THEN Fail(S, ErrOutOfBounds)
    ELSE IF ~InRange(groupID, mp.Groups) THEN Fail(S, Panic)
    ELSE LET group == mp.Groups[groupID + 1]
         IN IF layerID >= Len(group.Layers) THEN Fail(S, ErrOutOfBounds)
            ELSE IF ~InRange(layerID, group.Layers) THEN Fail(S, Panic)
            ELSE _renderLayer(mp, files, S, group.Layers[layerID + 1])

\* Renderer.RenderGroup
RenderGroup(mp, files, S, groupID) ==
    IF groupID >= Len(mp.Groups) THEN Fail(S, ErrOutOfBounds)
    ELSE IF ~InRange(groupID, mp.Groups) THEN Fail(S, Panic)
    ELSE _renderGroup(mp, files, S, mp.Groups[groupID + 1])

\* Renderer.RenderObjectGroup
RenderObjectGroup(mp, files, S, i) ==
    IF i >= Len(mp.ObjectGroups) THEN Fail(S, ErrOutOfBounds)
    ELSE IF ~InRange(i, mp.ObjectGroups) THEN Fail(S, Panic)
    ELSE _renderObjectGroup(mp, files, S, mp.ObjectGroups[i + 1])

\* Renderer.RenderGroupObjectGroup
RenderGroupObjectGroup(mp, files, S, groupID, objectGroupID) ==
    IF groupID >= Len(mp.Groups) THEN Fail(S, ErrOutOfBounds)
    ELSE IF ~InRange(groupID, mp.Groups) THEN Fail(S, Panic)
    ELSE LET group == mp.Groups[groupID + 1]
         IN IF objectGroupID >= Len(group.ObjectGroups) THEN Fail(S, ErrOutOfBounds)
            ELSE IF ~InRange(objectGroupID, group.ObjectGroups) THEN Fail(S, Panic)
            ELSE _renderObjectGroup(mp, files, S,
                                    group.ObjectGroups[objectGroupID + 1])

\* the loop of RenderVisibleGroups, from the k-th group on
RECURSIVE VisibleGroups(_, _, _, _)
VisibleGroups(mp, files, S, k) ==
    IF k > Len(mp.Groups) THEN S
    ELSE IF ~mp.Groups[k].Visible THEN VisibleGroups(mp, files, S, k + 1)
    ELSE OrElse(_renderGroup(mp, files, S, mp.Groups[k]),
                LAMBDA S1 : VisibleGroups(mp, files, S1, k + 1))

\* Renderer.RenderVisibleGroups
RenderVisibleGroups(mp, files, S) == VisibleGroups(mp, files, S, 1)

\* the loop of RenderVisibleLayers, from index i on
RECURSIVE VisibleLayers(_, _, _, _)
VisibleLayers(mp, files, S, i) ==
    IF i >= Len(mp.Layers) THEN S
    ELSE IF ~mp.Layers[i + 1].Visible THEN VisibleLayers(mp, files, S, i + 1)
    ELSE OrElse(RenderLayer(mp, files, S, i),
                LAMBDA S1 : VisibleLayers(mp, files, S1, i + 1))

\* Renderer.RenderVisibleLayers
RenderVisibleLayers(mp, files, S) == VisibleLayers(mp, files, S, 0)

\* the loop of RenderVisibleObjectGroups, from index i on
RECURSIVE VisibleObjectGroups(_, _, _, _)
VisibleObjectGroups(mp, files, S, i) ==
    IF i >= Len(mp.ObjectGroups) THEN S
    ELSE IF ~mp.ObjectGroups[i + 1].Visible
    THEN VisibleObjectGroups(mp, files, S, i + 1)
    ELSE OrElse(RenderObjectGroup(mp, files, S, i),
                LAMBDA S1 : VisibleObjectGroups(mp, files, S1, i + 1))

\* Renderer.RenderVisibleObjectGroups
RenderVisibleObjectGroups(mp, files, S) == VisibleObjectGroups(mp, files, S, 0)

\* RenderVisibleLayersAndObjectGroups with the object groups before the layers
RenderVisibleLayersAndObjectGroupsReversed(mp, files, S) ==
    OrElse(RenderVisibleObjectGroups(mp, files, S),
           LAMBDA S1 : RenderVisibleLayers(mp, files, S1))

\* Renderer.RenderVisibleLayersAndObjectGroups
RenderVisibleLayersAndObjectGroups(mp, files, S) ==
    OrElse(RenderVisibleLayers(mp, files, S),
           LAMBDA S1 : RenderVisibleObjectGroups(mp, files, S1))

\* Renderer.Clear: a blank canvas of the engine's final size
Clear(mp) ==
    [w |-> GetFinalImageSize(mp).w, h |-> GetFinalImageSize(mp).h, draws |-> << >>]

NoCanvas == [w |-> -1, h |-> -1, draws |-> << >>]

\* NewRendererWithFileSystem testing the orientation only after r.Clear()
NewRendererClearFirst(mp) ==
    IF mp.Orientation = "orthogonal"
    THEN [r |-> "ok", Result |-> Clear(mp), ev |-> <<EvAlloc>>, err |-> nil]
    ELSE [r |-> "nil", Result |-> Clear(mp), ev |-> <<EvAlloc>>,
          err |-> ErrUnsupportedOrientation]

\* NewRendererWithFileSystem: [r, Result, ev, err]
NewRendererWithFileSystem(mp) ==
    IF mp.Orientation = "orthogonal"
    THEN [r |-> "ok", Result |-> Clear(mp), ev |-> <<EvAlloc>>, err |-> nil]
    ELSE [r |-> "nil", Result |-> NoCanvas, ev |-> << >>,
          err |-> ErrUnsupportedOrientation]

---------------------------------------------------------------------------
(* The TilesetCache. *)

\* the slicing loop of cacheTileset, from tile i on
RECURSIVE Slices(_, _, _, _)
Slices(cache, ts, eimg, i) ==
    IF i >= ts.TileCount THEN cache
    ELSE Slices(Put(cache, i, SubImage(eimg, GetTileRect(ts, i))), ts, eimg, i + 1)

\* cacheTileset entering the tileset in the cache before it opens the
\* image, so that a failure leaves an empty entry behind
cacheTilesetEntryFirst(files, tc, tileset) ==
    LET Decoded(d) ==
            IF d.err # nil
            THEN [cache |-> Put(tc, tileset.Name, << >>), ev |-> d.ev, err |-> d.err]
            ELSE [cache |-> Put(tc, tileset.Name, Slices(<< >>, tileset, d.img, 0)),
                  ev |-> d.ev, err |-> nil]
    IN IF tileset.Image = "" THEN [cache |-> tc, ev |-> << >>, err |-> Panic]
       ELSE Decoded(OpenAndDecode(files, tileset.Image))

\* TilesetCache.cacheTileset: [cache, ev, err]
cacheTileset(files, tc, tileset) ==
    LET Decoded(d) ==
            IF d.err # nil THEN [cache |-> tc, ev |-> d.ev, err |-> d.err]
            ELSE [cache |-> Put(tc, tileset.Name, Slices(<< >>, tileset, d.img, 0)),
                  ev |-> d.ev, err |-> nil]
    IN IF tileset.Image = "" THEN [cache |-> tc, ev |-> << >>, err |-> Panic]
       ELSE Decoded(OpenAndDecode(files, tileset.Image))

\* a map read at a key: the value, or the zero value (no image) if absent
At(cached, k) == IF k \in DOMAIN cached THEN cached[k] ELSE NoImage

\* TilesetCache.GetTileImage: [cache, ev, img, err]
GetTileImage(mp, files, tc, tile) ==
    LET tileset == mp.Tilesets[tile.Tileset]
        Cached(c) ==
            IF c.err # nil THEN Resolved(c.cache, c.ev, NoImage, c.err)
            ELSE Resolved(c.cache, c.ev, At(c.cache[tileset.Name], tile.ID), nil)
    IN IF tileset.Name \in DOMAIN tc
       THEN Resolved(tc, << >>, At(tc[tileset.Name], tile.ID), nil)
       ELSE Cached(cacheTileset(files, tc, tileset))

---------------------------------------------------------------------------
(* The maps the renderer is run on. *)

Range(f) == {f[x] : x \in DOMAIN f}

\* the sequences of at most n different members of S
RECURSIVE Arrangements(_, _)
Arrangements(S, n) ==
    IF n = 0 THEN {<< >>}
    ELSE LET shorter == Arrangements(S, n - 1)
         IN shorter \cup
            UNION { {Append(q, x) : x \in S \ Range(q)} : q \in shorter }

Tile(ts, id, h, v, d) ==
    [ID |-> id, Tileset |-> ts, HorizontalFlip |-> h, VerticalFlip |-> v,
     DiagonalFlip |-> d, Nil |-> FALSE]

\* tiled.NilLayerTile
NilLayerTile ==
    [ID |-> 0, Tileset |-> 0, HorizontalFlip |-> FALSE, VerticalFlip |-> FALSE,
     DiagonalFlip |-> FALSE, Nil |-> TRUE]

\* a tileset cut from one shared image of two 2x2 tiles
SharedTileset(name, first, count, src) ==
    [Name |-> name, FirstGID |-> first, TileCount |-> count, Columns |-> 2,
     TileWidth |-> 2, TileHeight |-> 2, Image |-> src, Tiles |-> << >>]

\* a tileset of per-tile images (Tileset.Image is nil, written "")
TileImagesTileset(name, first, tiles) ==
    [Name |-> name, FirstGID |-> first, TileCount |-> Cardinality(DOMAIN tiles),
     Columns |-> 1, TileWidth |-> 2, TileHeight |-> 2, Image |-> "",
     Tiles |-> tiles]

\* Global IDs 1, 2 are tileset B's, 4, 5 are S's, 6, 7 are A's; B has no
\* tile for 3 and A none for 8.
Tilesets3 ==
    << TileImagesTileset("B", 1, (0 :> "b0.png" @@ 1 :> "b1.png")),
       SharedTileset("S", 4, 2, "s.png"),
       SharedTileset("A", 6, 2, "a.png") >>

\* the places of the tilesets B, S and A in Tilesets3
TilesetNamed(name) == CHOOSE i \in DOMAIN Tilesets3 : Tilesets3[i].Name = name
TsB == TilesetNamed("B")
TsS == TilesetNamed("S")
TsA == TilesetNamed("A")

Layer(id, visible, opacity, tiles) ==
    [ID |-> id, Visible |-> visible, Opacity |-> opacity, Tiles |-> tiles]

ObjectGroup(id, visible, opacity, objs) ==
    [ID |-> id, Visible |-> visible, Opacity |-> opacity, Objects |-> objs]

Object(id, gid, x, y, w, h, rot, visible) ==
    [ID |-> id, GID |-> gid, X |-> x, Y |-> y, Width |-> w, Height |-> h,
     Rotation |-> rot, Visible |-> visible]

Group(visible, layers, ogs) ==
    [Visible |-> visible, Layers |-> layers, ObjectGroups |-> ogs]

\* a 2x1 orthogonal map of 1x2 cells with nothing in it
BaseMap ==
    [Orientation |-> "orthogonal", RenderOrder |-> "", Width |-> 2, Height |-> 1,
     TileWidth |-> 1, TileHeight |-> 2, Tilesets |-> Tilesets3,
     Layers |-> << >>, ObjectGroups |-> << >>, Groups |-> << >>]

\* Objects: 1, 2, 3 at the places (Y=5,X=10), (Y=3,X=1), (Y=5,X=2), 4 at
\* (Y=5,X=2) as well, 5 without a tile at (Y=3,X=1), 6 invisible, and 7
\* above and to the right of 1.
ObjectPool ==
    { Object(1, 6, 10, 5, 2, 2, 0, TRUE),
      Object(2, 1, 1, 3, 4, 2, 90, TRUE),
      Object(3, 7, 2, 5, 2, 2, 0, TRUE),
      Object(4, 2, 2, 5, 1, 1, 0, TRUE),
      Object(5, 0, 1, 3, 2, 2, 0, TRUE),
      Object(6, 4, 1, 1, 2, 2, 0, FALSE),
      Object(7, 2, 12, 4, 1, 1, 0, TRUE) }

ObjectsOf(ids) == {o \in ObjectPool : o.ID \in ids}

\* maps with one top-level object group, and the same objects in an object
\* group inside a group: up to MaxObjs of the objects 1 to 4, or of the
\* objects 1, 5, 6, 7, in every order
ObjectMaps ==
    { [BaseMap EXCEPT !.ObjectGroups = <<ObjectGroup(7, TRUE, ChanMax, objs)>>,
                      !.Groups = <<Group(TRUE, << >>,
                                         <<ObjectGroup(8, TRUE, Half, objs)>>)>>] :
        objs \in Arrangements(ObjectsOf({1, 2, 3, 4}), MaxObjs)
                     \cup Arrangements(ObjectsOf({1, 5, 6, 7}), MaxObjs) }

\* the tiles a layer cell may hold
LayerTilePool ==
    { NilLayerTile, Tile(TsA, 0, FALSE, FALSE, FALSE), Tile(TsS, 1, TRUE, FALSE, TRUE),
      Tile(TsB, 0, FALSE, TRUE, FALSE), Tile(TsB, 0, FALSE, FALSE, FALSE) }

Opacities == {0, Half, ChanMax}

\* maps with one top-level layer
LayerMaps ==
    { [BaseMap EXCEPT !.Layers = <<Layer(1, TRUE, op, <<t1, t2>>)>>] :
        op \in Opacities, t1 \in LayerTilePool, t2 \in LayerTilePool }

\* the children a group may have: two layers and two object groups, some
\* of them invisible; g tells the groups' children apart by their IDs
GroupShapes(g) ==
    { Group(v[1],
            << Layer(10 * g + 1, v[2], ChanMax,
                     <<Tile(TsA, 0, FALSE, FALSE, FALSE), Tile(TsB, 1, FALSE, FALSE, FALSE)>>),
               Layer(10 * g + 2, v[3], Half,
                     <<NilLayerTile, Tile(TsA, 1, TRUE, FALSE, FALSE)>>) >>,
            << ObjectGroup(10 * g + 3, v[4], ChanMax,
                           <<Object(1, 6, 10, 5, 2, 2, 0, TRUE)>>),
               ObjectGroup(10 * g + 4, v[5], Half,
                           <<Object(2, 1, 1, 3, 4, 2, 0, TRUE),
                             Object(3, 7, 2, 1, 2, 2, 0, TRUE)>>) >>) :
        v \in { <<TRUE, TRUE, TRUE, TRUE, TRUE>>, <<TRUE, FALSE, TRUE, TRUE, FALSE>>,
                <<TRUE, TRUE, FALSE, FALSE, TRUE>>, <<FALSE, TRUE, TRUE, TRUE, TRUE>> } }

\* maps with two top-level groups
GroupMaps ==
    { [BaseMap EXCEPT !.Groups = <<g1, g2>>] :
        g1 \in GroupShapes(1), g2 \in GroupShapes(2) }

\* maps whose tiles miss the cache in every way: tiles of the shared image
\* a.png and of the per-tile images, a local ID past the shared tileset's
\* tile count, and a local ID the per-tile tileset has no tile for
CacheMaps ==
    { [BaseMap EXCEPT !.Layers = <<Layer(1, TRUE, ChanMax, c.tiles)>>,
                      !.ObjectGroups = <<ObjectGroup(7, TRUE, ChanMax,
                                           <<Object(1, c.gid, 1, 1, 2, 2, 0, TRUE)>>)>>] :
        c \in { [tiles |-> <<Tile(TsA, 0, FALSE, FALSE, FALSE),
                             Tile(TsA, 1, FALSE, FALSE, FALSE)>>, gid |-> 2],
                [tiles |-> <<Tile(TsA, 1, TRUE, FALSE, FALSE),
                             Tile(TsB, 0, FALSE, FALSE, FALSE)>>, gid |-> 7],
                [tiles |-> <<Tile(TsB, 1, FALSE, FALSE, FALSE),
                             Tile(TsB, 0, FALSE, TRUE, FALSE)>>, gid |-> 7],
                [tiles |-> <<NilLayerTile, Tile(TsA, 2, FALSE, FALSE, FALSE)>>,
                 gid |-> 6],
                [tiles |-> <<Tile(TsB, 1, FALSE, FALSE, FALSE),
                             Tile(TsB, 2, FALSE, FALSE, FALSE)>>, gid |-> 8] } }

\* the tiles of a layer of a 2x2 map, row by row: three tiles and a gap;
\* one flipped tile; and a tile followed by one its tileset does not have
GridTiles ==
    << << Tile(TsA, 0, FALSE, FALSE, FALSE), NilLayerTile,
          Tile(TsB, 0, FALSE, TRUE, FALSE), Tile(TsA, 1, TRUE, FALSE, FALSE) >>,
       << NilLayerTile, Tile(TsS, 1, TRUE, FALSE, TRUE), NilLayerTile, NilLayerTile >>,
       << Tile(TsB, 1, FALSE, FALSE, FALSE), Tile(TsA, 2, FALSE, FALSE, FALSE),
          Tile(TsA, 0, FALSE, FALSE, FALSE), NilLayerTile >> >>

\* 2x2 maps (a 2x4 canvas) with two top-level layers and two top-level
\* object groups, some of them invisible
GridMaps ==
    { [BaseMap EXCEPT !.Width = 2, !.Height = 2,
                      !.Layers = << Layer(1, v[1], ChanMax, GridTiles[p[1]]),
                                    Layer(2, v[2], Half, GridTiles[p[2]]) >>,
                      !.ObjectGroups =
                          << ObjectGroup(7, v[3], ChanMax,
                                         <<Object(1, 6, 10, 5, 2, 2, 0, TRUE)>>),
                             ObjectGroup(9, v[4], Half,
                                         <<Object(4, 2, 2, 5, 1, 1, 0, TRUE),
                                           Object(2, 1, 1, 3, 4, 2, 90, TRUE)>>) >>] :
        p \in {<<1, 2>>, <<2, 1>>, <<1, 3>>, <<3, 2>>},
        v \in { <<TRUE, TRUE, TRUE, TRUE>>, <<FALSE, TRUE, TRUE, FALSE>>,
                <<TRUE, FALSE, FALSE, TRUE>>, <<TRUE, TRUE, FALSE, FALSE>>,
                <<FALSE, FALSE, TRUE, TRUE>> } }

\* maps of every grid and tile size for the engine
EngineMaps ==
    { [BaseMap EXCEPT !.Width = w, !.Height = h, !.TileWidth = tw, !.TileHeight = th] :
        w \in 1..MaxGrid, h \in 1..MaxGrid, tw \in 1..MaxTile, th \in 1..MaxTile }

\* the images handed to the engine: the image files and their 2x2 tiles
EngineImages ==
    ({FilePixels(src) : src \in Sources}
        \cup {SubImage(FilePixels(src), [x0 |-> x, y0 |-> 0, x1 |-> x + 2, y1 |-> 2]) :
                 src \in Sources, x \in {0, 2}}) \ {NoImage}

Orientations == {"orthogonal", "isometric", "staggered", "hexagonal", ""}
RenderOrders == {"", "right-down", "right-up", "left-down", "left-up"}

\* maps of every orientation and render order
SetupMaps ==
    { [BaseMap EXCEPT !.Orientation = o, !.RenderOrder = ro,
                      !.Layers = <<Layer(1, TRUE, ChanMax,
                                         <<Tile(TsA, 0, FALSE, FALSE, FALSE),
                                           Tile(TsB, 0, FALSE, FALSE, FALSE)>>)>>,
                      !.ObjectGroups = <<ObjectGroup(7, TRUE, ChanMax,
                                           <<Object(1, 6, 1, 1, 2, 2, 0, TRUE)>>)>>,
                      !.Groups = <<Group(TRUE,
                                         <<Layer(11, TRUE, Half,
                                                 <<NilLayerTile,
                                                   Tile(TsA, 1, FALSE, FALSE, FALSE)>>)>>,
                                         << >>)>>] :
        o \in Orientations, ro \in RenderOrders }

\* every tile the map places: the layers' and the objects'
MapTiles(mp) ==
    LET layers == Range(mp.Layers) \cup UNION {Range(g.Layers) : g \in Range(mp.Groups)}
        ogs == Range(mp.ObjectGroups)
                   \cup UNION {Range(g.ObjectGroups) : g \in Range(mp.Groups)}
        gids == {o.GID : o \in UNION {Range(og.Objects) : og \in ogs}}
    IN {t \in UNION {Range(l.Tiles) : l \in layers} : ~t.Nil}
       \cup {TileGIDToTile(mp, gid).tile :
                 gid \in {x \in gids : x # 0 /\ TileGIDToTile(mp, x).err = nil}}

---------------------------------------------------------------------------
(* The state machine. *)

NoCall == [op |-> "", a |-> 0, b |-> 0, err |-> nil, img |-> NoImage]

Called(op, a, b, err, img) == [op |-> op, a |-> a, b |-> b, err |-> err, img |-> img]

InitWith(maps, flakies) ==
    /\ m \in maps
    /\ flaky \in flakies
    /\ fs = [s \in Sources |-> "ok"]
    /\ r = "none"
    /\ Result = NoCanvas
    /\ tileCache = << >>
    /\ tcache = << >>
    /\ call = NoCall
    /\ ev = << >>
    /\ decoded = {}
    /\ retry = FALSE

Init == InitWith(CacheMaps, {{"a.png"}, {"b0.png"}, {"b1.png"}})
InitObjects == InitWith(ObjectMaps, {{}})
InitLayers == InitWith(LayerMaps, {{}})
InitGroups == InitWith(GroupMaps, {{}})
InitSetup == InitWith(SetupMaps, {{}})
InitGrid == InitWith(GridMaps, {{}})
InitEngine == InitWith(EngineMaps, {{}})

\* the sources a log shows decoded, the files being as they are
Decodes(log, files) ==
    {log[i].s : i \in {j \in DOMAIN log : log[j].k = "decode" /\ files[log[j].s] = "ok"}}

\* NewRendererWithFileSystem(m, fs)
Construct ==
    /\ r = "none"
    /\ \E n \in {NewRendererWithFileSystem(m)} :
          /\ r' = n.r
          /\ Result' = n.Result
          /\ ev' = n.ev
          /\ call' = Called("NewRenderer", 0, 0, n.err, NoImage)
    /\ retry' = FALSE
    /\ UNCHANGED <<m, tileCache, tcache, fs, flaky, decoded>>

\* r.Clear()
CallClear ==
    /\ r = "ok"
    /\ Result' = Clear(m)
    /\ ev' = <<EvAlloc>>
    /\ call' = Called("Clear", 0, 0, nil, NoImage)
    /\ retry' = FALSE
    /\ UNCHANGED <<m, r, tileCache, tcache, fs, flaky, decoded>>

\* a render call may be made
Ready == r = "ok" /\ Len(Result.draws) < MaxDraws

\* the state after the render call op(a, b) that ended as S
Rendered(op, a, b, S) ==
    /\ call' = Called(op, a, b, S.err, NoImage)
    /\ ev' = S.ev
    /\ tileCache' = S.cache
    /\ Result' = [Result EXCEPT !.draws = S.draws]
    /\ decoded' = decoded \cup Decodes(S.ev, fs)
    /\ retry' = FALSE
    /\ UNCHANGED <<m, r, tcache, fs, flaky>>

Now == Begin(tileCache, Result.draws)

\* the call op(tile) comes right after the same call failed to open or
\* decode the tile's image
Retries(op, tile) ==
    /\ call.op = op /\ call.a = tile.Tileset /\ call.b = tile.ID
    /\ call.err \in {ErrOpen, ErrDecode}

Idx(s) == -1..(Len(s) + IdxOver)

\* the second index of a two-index accessor: past every group's children
ChildIdx(lens) ==
    -1..((IF lens = {} THEN 0 ELSE CHOOSE n \in lens : \A k \in lens : k <= n)
         + IdxOver)

\* the numbers of layers, and of object groups, of the map's groups
GroupLayersLens == {Len(m.Groups[g].Layers) : g \in DOMAIN m.Groups}
GroupObjectGroupsLens == {Len(m.Groups[g].ObjectGroups) : g \in DOMAIN m.Groups}

CallRenderLayer ==
    /\ Ready
    /\ \E id \in Idx(m.Layers) :
           Rendered("RenderLayer", id, 0, RenderLayer(m, fs, Now, id))

CallRenderGroup ==
    /\ Ready
    /\ \E id \in Idx(m.Groups) :
           Rendered("RenderGroup", id, 0, RenderGroup(m, fs, Now, id))

CallRenderGroupLayer ==
    /\ Ready
    /\ \E g \in Idx(m.Groups), l \in ChildIdx(GroupLayersLens) :
           Rendered("RenderGroupLayer", g, l, RenderGroupLayer(m, fs, Now, g, l))

CallRenderObjectGroup ==
    /\ Ready
    /\ \E i \in Idx(m.ObjectGroups) :
           Rendered("RenderObjectGroup", i, 0, RenderObjectGroup(m, fs, Now, i))

CallRenderGroupObjectGroup ==
    /\ Ready
    /\ \E g \in Idx(m.Groups), o \in ChildIdx(GroupObjectGroupsLens) :
           Rendered("RenderGroupObjectGroup", g, o,
                    RenderGroupObjectGroup(m, fs, Now, g, o))

CallRenderVisibleLayers ==
    /\ Ready
    /\ Rendered("RenderVisibleLayers", 0, 0, RenderVisibleLayers(m, fs, Now))

CallRenderVisibleGroups ==
    /\ Ready
    /\ Rendered("RenderVisibleGroups", 0, 0, RenderVisibleGroups(m, fs, Now))

CallRenderVisibleObjectGroups ==
    /\ Ready
    /\ Rendered("RenderVisibleObjectGroups", 0, 0,
                RenderVisibleObjectGroups(m, fs, Now))

CallRenderVisibleLayersAndObjectGroups ==
    /\ Ready
    /\ Rendered("RenderVisibleLayersAndObjectGroups", 0, 0,
                RenderVisibleLayersAndObjectGroups(m, fs, Now))

\* r.getTileImage(tile) on its own, for a tile of the map
CallGetTileImage ==
    /\ r = "ok"
    /\ \E tile \in MapTiles(m) :
           \E R \in {getTileImage(m, fs, tileCache, tile)} :
              /\ call' = Called("getTileImage", tile.Tileset, tile.ID, R.err, R.img)
              /\ ev' = R.ev
              /\ tileCache' = R.cache
              /\ decoded' = decoded \cup Decodes(R.ev, fs)
              /\ retry' = Retries("getTileImage", tile)
    /\ UNCHANGED <<m, r, Result, tcache, fs, flaky>>

\* TilesetCache.GetTileImage(tile), for a tile of the map
CallTilesetCacheGetTileImage ==
    /\ \E tile \in MapTiles(m) :
           \E R \in {GetTileImage(m, fs, tcache, tile)} :
              /\ call' = Called("GetTileImage", tile.Tileset, tile.ID, R.err, R.img)
              /\ ev' = R.ev
              /\ tcache' = R.cache
              /\ retry' = Retries("GetTileImage", tile)
    /\ UNCHANGED <<m, r, Result, tileCache, fs, flaky, decoded>>

\* engine.RotateTileImage(tile, img), the engine initialised with m
CallRotateTileImage ==
    /\ \E h \in BOOLEAN, v \in BOOLEAN, d \in BOOLEAN, img \in EngineImages :
           call' = Called("RotateTileImage", Tile(0, 0, h, v, d), img, nil,
                          RotateTileImage(Tile(0, 0, h, v, d), img))
    /\ UNCHANGED <<m, r, Result, tileCache, tcache, fs, flaky, ev, decoded, retry>>

\* engine.GetTilePosition(x, y) for a cell of the grid
CallGetTilePosition ==
    /\ \E x \in 0..(m.Width - 1), y \in 0..(m.Height - 1) :
           call' = Called("GetTilePosition", x, y, nil, GetTilePosition(m, x, y))
    /\ UNCHANGED <<m, r, Result, tileCache, tcache, fs, flaky, ev, decoded, retry>>

\* a file is removed, damaged or restored between two calls
FsChange ==
    /\ \E src \in flaky, st \in {"ok", "missing", "corrupt"} :
           /\ fs[src] # st
           /\ fs' = [fs EXCEPT ![src] = st]
    /\ UNCHANGED <<m, r, Result, tileCache, tcache, flaky, call, ev, decoded, retry>>

\* the Renderer's exported calls
RenderNext ==
    \/ Construct
    \/ CallClear
    \/ CallRenderLayer
    \/ CallRenderGroup
    \/ CallRenderGroupLayer
    \/ CallRenderObjectGroup
    \/ CallRenderGroupObjectGroup
    \/ CallRenderVisibleLayers
    \/ CallRenderVisibleGroups
    \/ CallRenderVisibleObjectGroups
    \/ CallRenderVisibleLayersAndObjectGroups

RendererNext == RenderNext \/ CallGetTileImage

Next == RendererNext \/ CallTilesetCacheGetTileImage \/ FsChange

\* the engine's calls
EngineNext == CallRotateTileImage \/ CallGetTilePosition

\* the renderer and the tileset cache over files that come and go
Spec == Init /\ [][Next]_vars

\* the renderer alone, over maps of object groups, layers, groups, and of
\* every orientation
SpecObjects == InitObjects /\ [][RenderNext]_vars
SpecLayers == InitLayers /\ [][RendererNext]_vars
SpecGroups == InitGroups /\ [][RenderNext]_vars
SpecSetup == InitSetup /\ [][RenderNext]_vars
SpecGrid == InitGrid /\ [][RenderNext]_vars

\* the orthogonal engine alone
SpecEngine == InitEngine /\ [][EngineNext]_vars

---------------------------------------------------------------------------
(* What the properties below read off a state. *)

\* the call c made on map mp from the render state S
Exec(mp, files, S, c) ==
    CASE c.op = "RenderLayer" -> RenderLayer(mp, files, S, c.a)
      [] c.op = "RenderGroup" -> RenderGroup(mp, files, S, c.a)
      [] c.op = "RenderGroupLayer" -> RenderGroupLayer(mp, files, S, c.a, c.b)
      [] c.op = "RenderObjectGroup" -> RenderObjectGroup(mp, files, S, c.a)
      [] c.op = "RenderGroupObjectGroup" ->
             RenderGroupObjectGroup(mp, files, S, c.a, c.b)
      [] c.op = "RenderVisibleLayers" -> RenderVisibleLayers(mp, files, S)
      [] c.op = "RenderVisibleGroups" -> RenderVisibleGroups(mp, files, S)
      [] c.op = "RenderVisibleObjectGroups" ->
             RenderVisibleObjectGroups(mp, files, S)
      [] c.op = "RenderVisibleLayersAndObjectGroups" ->
             RenderVisibleLayersAndObjectGroups(mp, files, S)

RenderCalls ==
    {"RenderLayer", "RenderGroup", "RenderGroupLayer", "RenderObjectGroup",
     "RenderGroupObjectGroup", "RenderVisibleLayers", "RenderVisibleGroups",
     "RenderVisibleObjectGroups", "RenderVisibleLayersAndObjectGroups"}

\* every object group of the map, top-level or in a group
AllObjectGroups(mp) ==
    Range(mp.ObjectGroups) \cup UNION {Range(g.ObjectGroups) : g \in Range(mp.Groups)}

\* every layer of the map, top-level or in a group
AllLayers(mp) ==
    Range(mp.Layers) \cup UNION {Range(g.Layers) : g \in Range(mp.Groups)}

\* the elements the log shows drawn for owner o, in order
DrawnBy(log, o) ==
    LET mine == SelectSeq(log, LAMBDA x : x.k = "draw" /\ x.o = o)
    IN [i \in DOMAIN mine |-> mine[i].e]

\* the place of the object with this ID in objs
PlaceOf(objs, id) == CHOOSE i \in DOMAIN objs : objs[i].ID = id

\* the map with objs for the objects of every object group
WithObjects(mp, objs) ==
    [mp EXCEPT !.ObjectGroups = [i \in DOMAIN @ |-> [@[i] EXCEPT !.Objects = objs]],
               !.Groups = [g \in DOMAIN @ |->
                   [@[g] EXCEPT !.ObjectGroups =
                       [i \in DOMAIN @ |-> [@[i] EXCEPT !.Objects = objs]]]]]

\* the orders of objs that leave objects of equal (Y, X) in their order
Rearrangements(objs) ==
    { p \in Arrangements(Range(objs), Len(objs)) :
        /\ Len(p) = Len(objs)
        /\ \A i, j \in DOMAIN objs :
               (i < j /\ objs[i].Y = objs[j].Y /\ objs[i].X = objs[j].X)
                   => PlaceOf(p, objs[i].ID) < PlaceOf(p, objs[j].ID) }

\* ids, the objects of objs drawn, are in ascending Y, then ascending X,
\* then in their order in objs
InPaintersOrder(ids, objs) ==
    \A i, j \in DOMAIN ids :
        i < j =>
            LET a == objs[PlaceOf(objs, ids[i])]
                b == objs[PlaceOf(objs, ids[j])]
            IN \/ a.Y < b.Y
               \/ a.Y = b.Y /\ a.X < b.X
               \/ a.Y = b.Y /\ a.X = b.X
                      /\ PlaceOf(objs, ids[i]) < PlaceOf(objs, ids[j])

---------------------------------------------------------------------------
(* Object groups (maps of ObjectMaps, under SpecObjects). *)

\* the last n draws on the canvas
LastDraws(n) == SubSeq(Result.draws, Len(Result.draws) - n + 1, Len(Result.draws))

DrawEvents(log) == SelectSeq(log, LAMBDA x : x.k = "draw")

\* C1: a render call draws each object group's objects in ascending Y,
\* ties by ascending X, objects of equal (Y, X) in their input order; and
\* the draws it makes are the same for every order of the input that
\* keeps the objects of equal (Y, X) in their order.
C1_ObjectGroupDrawOrder ==
    call.op \in RenderCalls =>
        /\ \A og \in AllObjectGroups(m) :
               InPaintersOrder(DrawnBy(ev, og.ID), og.Objects)
        /\ \A p \in Rearrangements(m.ObjectGroups[1].Objects) :
               LET S == Exec(WithObjects(m, p), fs, Begin(<< >>, << >>), call)
               IN /\ DrawEvents(S.ev) = DrawEvents(ev)
                  /\ S.draws = LastDraws(Len(S.draws))

\* RenderObjectGroup(0) of the objects 1 at (Y=5,X=10), 4 and 3 both at
\* (Y=5,X=2) has drawn 4, 3, 1
C1_Witness ==
    /\ call.op = "RenderObjectGroup" /\ call.a = 0 /\ call.err = nil
    /\ Len(m.ObjectGroups[1].Objects) = 3
    /\ [i \in 1..3 |-> m.ObjectGroups[1].Objects[i].ID] = <<1, 4, 3>>
    /\ DrawnBy(ev, m.ObjectGroups[1].ID) = <<4, 3, 1>>

\* an object the render passes over
Skipped(o) == o.GID = 0 \/ ~o.Visible

\* C9: an object with GID 0 or not visible makes a render of its group
\* draw nothing, look up nothing, cache nothing and fail with nothing, and
\* the objects after it are rendered: the call does, draws, caches and
\* returns what it would with those objects taken out of the group, and
\* the log names none of them.
C9_SkippedObjects ==
    [][ call'.op \in RenderCalls =>
          /\ \A og \in AllObjectGroups(m) : \A i \in DOMAIN og.Objects :
                 Skipped(og.Objects[i]) =>
                     \A k \in DOMAIN ev' :
                         ~(ev'[k].o = og.ID /\ ev'[k].e = og.Objects[i].ID
                               /\ ev'[k].k \in {"draw", "lookup"})
          /\ LET kept == SelectSeq(m.ObjectGroups[1].Objects, LAMBDA o : ~Skipped(o))
                 S == Exec(WithObjects(m, kept), fs, Now, call')
             IN /\ S.draws = Result'.draws
                /\ S.cache = tileCache'
                /\ S.ev = ev'
                /\ S.err = call'.err ]_vars

\* RenderObjectGroup(0) of the invisible object 6, then 5 without a tile,
\* then 1, the three in this order after the sort, has drawn 1 alone
C9_Witness ==
    /\ call.op = "RenderObjectGroup" /\ call.a = 0 /\ call.err = nil
    /\ Len(m.ObjectGroups[1].Objects) = 3
    /\ {m.ObjectGroups[1].Objects[i].ID : i \in 1..3} = {1, 5, 6}
    /\ DrawnBy(ev, m.ObjectGroups[1].ID) = <<1>>
    /\ DOMAIN tileCache = {6, 7}

---------------------------------------------------------------------------
(* Groups (maps of GroupMaps, under SpecGroups). *)

RECURSIVE Concat(_)
Concat(ss) == IF ss = << >> THEN << >> ELSE Head(ss) \o Concat(Tail(ss))

Repeat(x, n) == [i \in 1..n |-> x]

\* the owners of the log's draws, in order
Owners(log) == [i \in DOMAIN DrawEvents(log) |-> DrawEvents(log)[i].o]

\* a visible layer draws once for each of its cells that holds a tile
LayerOwners(l) ==
    IF l.Visible
    THEN Repeat(l.ID, Cardinality({i \in DOMAIN l.Tiles : ~l.Tiles[i].Nil}))
    ELSE << >>

\* a visible object group draws once for each object it does not pass over
ObjectGroupOwners(og) ==
    IF og.Visible
    THEN Repeat(og.ID, Len(SelectSeq(og.Objects, LAMBDA o : ~Skipped(o))))
    ELSE << >>

\* a visible group: its layers in their order, then its object groups in theirs
GroupOwners(g) ==
    IF g.Visible
    THEN Concat([i \in DOMAIN g.Layers |-> LayerOwners(g.Layers[i])])
             \o Concat([i \in DOMAIN g.ObjectGroups |->
                            ObjectGroupOwners(g.ObjectGroups[i])])
    ELSE << >>

\* C2: RenderVisibleGroups draws for the top-level groups in map order and
\* not for an invisible group; within a group every draw of a visible
\* child layer comes before every draw of a visible child object group,
\* the layers in their order, the object groups in theirs, and an
\* invisible child draws nothing.
C2_VisibleGroupsOrder ==
    call.op = "RenderVisibleGroups" =>
        /\ Owners(ev) = Concat([g \in DOMAIN m.Groups |-> GroupOwners(m.Groups[g])])
        /\ Len(Result.draws) >= Len(Owners(ev))

\* RenderVisibleGroups of a first group with its second layer (12) and
\* first object group (13) visible, and a second group with its first
\* layer (21) and second object group (24) visible
C2_Witness ==
    /\ call.op = "RenderVisibleGroups" /\ call.err = nil
    /\ Owners(ev) = <<12, 13, 21, 21, 24, 24>>

\* the call c has an index at or past the end of its sequence
OutOfBounds(c) ==
    CASE c.op = "RenderLayer" -> c.a >= Len(m.Layers)
      [] c.op = "RenderGroup" -> c.a >= Len(m.Groups)
      [] c.op = "RenderObjectGroup" -> c.a >= Len(m.ObjectGroups)
      [] c.op = "RenderGroupLayer" ->
             \/ c.a >= Len(m.Groups)
             \/ c.a >= 0 /\ c.b >= Len(m.Groups[c.a + 1].Layers)
      [] c.op = "RenderGroupObjectGroup" ->
             \/ c.a >= Len(m.Groups)
             \/ c.a >= 0 /\ c.b >= Len(m.Groups[c.a + 1].ObjectGroups)
      [] OTHER -> FALSE

\* C3: an indexed accessor called with an index (or one of its two
\* indices) at or past the length of its sequence returns ErrOutOfBounds,
\* draws nothing, and leaves the canvas and the tile cache as they were.
C3_OutOfBounds ==
    [][ OutOfBounds(call') =>
          /\ call'.err = ErrOutOfBounds
          /\ ev' = << >>
          /\ Result' = Result
          /\ tileCache' = tileCache ]_vars

\* RenderGroupLayer(1, 2), the second group having two layers, on a canvas
\* that holds draws and with tiles in the cache
C3_Witness ==
    /\ call.op = "RenderGroupLayer" /\ call.a = 1 /\ call.b = 2
    /\ call.err = ErrOutOfBounds
    /\ Len(m.Groups[2].Layers) = 2
    /\ Len(Result.draws) > 0
    /\ DOMAIN tileCache # {}

---------------------------------------------------------------------------
(* Construction (maps of SetupMaps, under SpecSetup). *)

\* C8: for a map that is not orthogonal the constructor returns
\* ErrUnsupportedOrientation and no Renderer, having opened, decoded,
\* allocated and drawn nothing; and nothing is done later for want of a
\* Renderer.
C8_UnsupportedOrientation ==
    /\ r = "ok" => m.Orientation = "orthogonal"
    /\ (m.Orientation # "orthogonal" /\ call # NoCall) =>
           /\ call.op = "NewRenderer"
           /\ call.err = ErrUnsupportedOrientation
           /\ r = "nil"
           /\ ev = << >>
           /\ Result = NoCanvas
           /\ tileCache = << >>
           /\ decoded = {}

\* the constructor has been called for an isometric map
C8_Witness ==
    /\ call.op = "NewRenderer" /\ m.Orientation = "isometric"
    /\ call.err = ErrUnsupportedOrientation


---------------------------------------------------------------------------
(* The tile cache (maps of CacheMaps, under Spec). *)

\* the global IDs of the tileset ts
GIDs(ts) == ts.FirstGID..(ts.FirstGID + ts.TileCount - 1)

HasEvent(log, k, src) == \E i \in DOMAIN log : log[i].k = k /\ log[i].s = src

\* C4: from an empty tile cache, one successful getTileImage of a tile of
\* a shared-image tileset leaves the cache with exactly the keys
\* first_GID .. first_GID + tile_count - 1, whichever tile was asked for.
C4_SharedTilesetPrecache ==
    [][ (/\ call'.op = "getTileImage" /\ call'.err = nil
         /\ tileCache = << >>
         /\ m.Tilesets[call'.a].Image # "")
            => /\ DOMAIN tileCache' = GIDs(m.Tilesets[call'.a])
               /\ Cardinality(DOMAIN tileCache') = m.Tilesets[call'.a].TileCount ]_vars

\* getTileImage of the second tile of tileset A has decoded a.png and left
\* the keys 6 and 7 in the cache
C4_Witness ==
    /\ call.op = "getTileImage" /\ call.a = TsA /\ call.b = 1 /\ call.err = nil
    /\ HasEvent(ev, "decode", "a.png")
    /\ DOMAIN tileCache = {6, 7}

\* C5: a successful getTileImage of tile k of a per-tile-image tileset
\* adds the one key first_GID + k to the cache, from an empty cache and
\* after another tile just the same; and no call caches a tile of such a
\* tileset that it did not resolve.
C5_PerTileCaching ==
    [][ /\ (/\ call'.op = "getTileImage" /\ call'.err = nil
            /\ m.Tilesets[call'.a].Image = "")
               => /\ DOMAIN tileCache' =
                         DOMAIN tileCache \cup {m.Tilesets[call'.a].FirstGID + call'.b}
                  /\ DOMAIN tileCache' \subseteq
                         UNION {GIDs(m.Tilesets[t]) : t \in DOMAIN m.Tilesets}
        /\ \A t \in DOMAIN m.Tilesets : \A id \in DOMAIN m.Tilesets[t].Tiles :
               (/\ m.Tilesets[t].Image = ""
                /\ (m.Tilesets[t].FirstGID + id) \in DOMAIN tileCache' \ DOMAIN tileCache)
                   => \E i \in DOMAIN ev' :
                          ev'[i].k = "resolve" /\ ev'[i].o = t /\ ev'[i].e = id ]_vars

\* getTileImage of tile 0 of tileset B, after its tile 1, has decoded
\* b0.png and the cache holds the keys 1 and 2
C5_Witness ==
    /\ call.op = "getTileImage" /\ call.a = TsB /\ call.b = 0 /\ call.err = nil
    /\ HasEvent(ev, "decode", "b0.png")
    /\ DOMAIN tileCache = {1, 2}

\* the key of the tile a resolve event names
KeyOf(e) == m.Tilesets[e.o].FirstGID + e.e

\* a resolution of a tile whose key is in the cache opens and decodes
\* nothing: in the log of the step, no open follows its resolve event
HitsOpenNothing ==
    \A i \in DOMAIN ev' :
        (ev'[i].k = "resolve" /\ KeyOf(ev'[i]) \in DOMAIN tileCache)
            => (i = Len(ev') \/ ev'[i + 1].k \notin {"open", "decode"})

RendererCalls == RenderCalls \cup {"getTileImage", "Clear"}

\* C6: over the Renderer's calls, a resolution of a tile whose global ID
\* is in the tile cache opens and decodes nothing, and no image source is
\* decoded again once it has been decoded successfully.
C6_DecodedOnce ==
    [][ (fs' = fs /\ call'.op \in RendererCalls) =>
          /\ HitsOpenNothing
          /\ \A i \in DOMAIN ev' : ev'[i].k = "decode" => ev'[i].s \notin decoded ]_vars

\* the image file of tile id of tileset ts
TileSource(ts, id) == IF ts.Image # "" THEN ts.Image ELSE ts.Tiles[id]

Resolutions == {"getTileImage", "GetTileImage"}

\* a resolution that fails to open or decode leaves both caches as they were
FailureCachesNothing ==
    (call'.op \in Resolutions /\ call'.err \in {ErrOpen, ErrDecode})
        => tileCache' = tileCache /\ tcache' = tcache

\* the step is the next resolution of the tile that the last call failed
\* to open or decode
RetryStep ==
    /\ fs' = fs
    /\ call.op \in Resolutions /\ call.err \in {ErrOpen, ErrDecode}
    /\ call'.op = call.op /\ call'.a = call.a /\ call'.b = call.b
    /\ retry'

\* C7 as it is written: a resolution that fails to open or decode returns
\* the error and caches nothing, and the next resolution of the same tile
\* opens the image again and succeeds if the file is readable.
C7_RetrySucceeds ==
    [][ /\ FailureCachesNothing
        /\ RetryStep =>
               /\ HasEvent(ev', "open", TileSource(m.Tilesets[call'.a], call'.b))
               /\ fs[TileSource(m.Tilesets[call'.a], call'.b)] = "ok"
                      => call'.err = nil ]_vars

\* C7, amended: a resolution that fails to open or decode returns the
\* error and caches nothing, and the next resolution of the same tile
\* opens the image again and, if the file is readable and the tile's local
\* ID is below the tileset's tile count, succeeds with the tile's image.
C7_RetrySucceedsWithinTileCount ==
    [][ /\ FailureCachesNothing
        /\ RetryStep =>
               /\ HasEvent(ev', "open", TileSource(m.Tilesets[call'.a], call'.b))
               /\ (/\ fs[TileSource(m.Tilesets[call'.a], call'.b)] = "ok"
                   /\ call'.b < m.Tilesets[call'.a].TileCount)
                      => call'.err = nil /\ call'.img # NoImage ]_vars

\* a getTileImage that failed on a.png has been made again, the file back,
\* and has decoded it
C7_Witness ==
    /\ retry /\ call.op = "getTileImage" /\ call.err = nil
    /\ HasEvent(ev, "decode", "a.png")
    /\ call.img # NoImage

---------------------------------------------------------------------------
(* Rendering a layer twice (maps of LayerMaps, under SpecLayers). *)

\* the cells of the layer that hold a tile
NonNil(layer) == Cardinality({i \in DOMAIN layer.Tiles : ~layer.Tiles[i].Nil})

\* the step is the second RenderLayer(0) in a row on a canvas that was
\* clear before the first
SecondRenderLayer ==
    /\ call.op = "RenderLayer" /\ call.a = 0 /\ call.err = nil
    /\ Len(Result.draws) = NonNil(m.Layers[1])
    /\ call' = call
    /\ Len(Result'.draws) = 2 * NonNil(m.Layers[1])

\* C10 as it is written: whatever the layer holds and whatever its
\* opacity, the canvas after Clear and two RenderLayer(0) has the pixels
\* of the canvas after Clear and one RenderLayer(0).
C10_RenderTwice ==
    [][ SecondRenderLayer => Raster(Result') = Raster(Result) ]_vars

\* every pixel of the image is fully opaque or fully transparent
OpaqueOrClear(img) ==
    \A y \in DOMAIN img : \A x \in DOMAIN img[y] :
        img[y][x][2] = ChanMax \/ img[y][x] = <<0, 0>>

\* C10, amended: for a layer of opacity 1 whose tile images have only
\* fully opaque and fully transparent pixels, the canvas after Clear and
\* two RenderLayer(0) has the pixels of the canvas after Clear and one
\* RenderLayer(0).
C10_RenderTwiceOpaque ==
    [][ (/\ SecondRenderLayer
         /\ m.Layers[1].Opacity = ChanMax
         /\ \A i \in DOMAIN Result'.draws : OpaqueOrClear(Result'.draws[i].img))
            => Raster(Result') = Raster(Result) ]_vars

\* two RenderLayer(0) of an opaque layer with the vertically flipped tile
\* of b0.png in its first cell: the canvas shows the tile's bottom row
C10_Witness ==
    /\ call.op = "RenderLayer" /\ call.a = 0 /\ call.err = nil
    /\ m.Layers[1].Opacity = ChanMax
    /\ NonNil(m.Layers[1]) = 2
    /\ Len(Result.draws) = 4
    /\ m.Layers[1].Tiles[1].Tileset = TsB /\ m.Layers[1].Tiles[2].Tileset = TsA
    /\ Raster(Result) = << <<<<0, ChanMax>>, <<1, ChanMax>>>>,
                           <<<<0, ChanMax>>, <<1, ChanMax>>>> >>


---------------------------------------------------------------------------
(* Errors in a render call (maps of CacheMaps, under Spec). *)

\* the number of the log's events of kind k about the source src
CountEvents(log, k, src) ==
    Cardinality({i \in DOMAIN log : log[i].k = k /\ log[i].s = src})

\* the error the log ends in: what its last event must have raised, the
\* files being as they are
ErrorRaised(log, files) ==
    LET last == log[Len(log)]
    IN CASE last.k = "open" /\ files[last.s] = "missing" -> ErrOpen
         [] last.k = "decode" /\ files[last.s] = "corrupt" -> ErrDecode
         [] last.k = "decode" /\ files[last.s] = "ok" -> ErrTileNotFound
         [] last.k = "resolve" -> ErrNoTilesetTile
         [] last.k = "lookup" -> ErrInvalidTileGID
         [] OTHER -> nil

\* C11: a render call returns the first error raised in resolving an
\* element as it is; it draws nothing after the error and tries nothing
\* again, and what it drew before the error stays on the canvas, after
\* what the canvas held.
C11_FirstErrorReturned ==
    [][ (fs' = fs /\ call'.op \in RenderCalls) =>
          /\ Len(Result'.draws) = Len(Result.draws) + Len(DrawEvents(ev'))
          /\ SubSeq(Result'.draws, 1, Len(Result.draws)) = Result.draws
          /\ (call'.err # nil /\ ev' # << >>) =>
                 /\ call'.err = ErrorRaised(ev', fs)
                 /\ \A src \in Sources : CountEvents(ev', "open", src) <= 1
          /\ call'.err = nil =>
                 \A i \in DOMAIN ev' :
                     /\ ev'[i].k = "open" => fs[ev'[i].s] = "ok"
                     /\ ev'[i].k = "decode" => fs[ev'[i].s] = "ok" ]_vars

\* RenderVisibleLayers has drawn the layer's first tile and failed to
\* open b0.png for the second: one draw is on the canvas
C11_Witness ==
    /\ call.op = "RenderVisibleLayers" /\ call.err = ErrOpen
    /\ fs["b0.png"] = "missing"
    /\ Owners(ev) = <<1>>
    /\ ev[Len(ev)] = EvOpen("b0.png")
    /\ Len(Result.draws) = 1


---------------------------------------------------------------------------
(* Render orders (maps of SetupMaps, under SpecSetup). *)

HasVisible(seq) == \E i \in DOMAIN seq : seq[i].Visible

\* the call c comes to render a tile layer before anything else can fail:
\* a layer it names, or the first visible layer of its traversal
ReachesLayer(c) ==
    CASE c.op = "RenderLayer" -> InRange(c.a, m.Layers)
      [] c.op = "RenderGroupLayer" ->
             InRange(c.a, m.Groups) /\ InRange(c.b, m.Groups[c.a + 1].Layers)
      [] c.op = "RenderGroup" ->
             InRange(c.a, m.Groups) /\ HasVisible(m.Groups[c.a + 1].Layers)
      [] c.op \in {"RenderVisibleLayers", "RenderVisibleLayersAndObjectGroups"} ->
             HasVisible(m.Layers)
      [] c.op = "RenderVisibleGroups" ->
             \E g \in DOMAIN m.Groups :
                 /\ m.Groups[g].Visible /\ HasVisible(m.Groups[g].Layers)
                 /\ \A h \in 1..(g - 1) : ~m.Groups[h].Visible
      [] OTHER -> FALSE

\* C12: on a map whose render order is neither unset nor "right-down", a
\* call that comes to render a tile layer returns
\* ErrUnsupportedRenderOrder, and no call draws for a layer, resolves a
\* layer's tile, or changes the cache or the canvas on a layer's account.
C12_UnsupportedRenderOrder ==
    [][ (m.RenderOrder \notin {"", "right-down"} /\ call'.op \in RenderCalls) =>
          /\ \A i \in DOMAIN ev' :
                 /\ ev'[i].k = "draw" => ev'[i].o \notin {l.ID : l \in AllLayers(m)}
                 /\ ev'[i].k = "resolve" => (i > 1 /\ ev'[i - 1].k = "lookup")
          /\ ReachesLayer(call') =>
                 /\ call'.err = ErrUnsupportedRenderOrder
                 /\ ev' = << >>
                 /\ tileCache' = tileCache
                 /\ Result' = Result ]_vars

\* RenderGroupLayer(0, 0) on a "left-up" map, after an object group was
\* drawn: the error, and the canvas and the cache as the objects left them
C12_Witness ==
    /\ m.RenderOrder = "left-up"
    /\ call.op = "RenderGroupLayer" /\ call.a = 0 /\ call.b = 0
    /\ call.err = ErrUnsupportedRenderOrder
    /\ Len(Result.draws) = 1
    /\ DOMAIN tileCache = {6, 7}


---------------------------------------------------------------------------
(* Layers of a grid (maps of GridMaps, under SpecGrid). *)

\* the draws a visible layer makes: for each index i, in ascending order,
\* whose tile is not nil, one draw at the cell (i mod Width, i div Width)
\* with the layer's opacity, written [o, e, geom, alpha]
LayerDraws(mp, layer) ==
    LET cells == SelectSeq([i \in DOMAIN layer.Tiles |-> i - 1],
                           LAMBDA i : ~layer.Tiles[i + 1].Nil)
    IN IF ~layer.Visible THEN << >>
       ELSE [k \in DOMAIN cells |->
                [o |-> layer.ID, e |-> cells[k],
                 geom |-> GetTilePosition(mp, cells[k] % mp.Width,
                                          cells[k] \div mp.Width),
                 alpha |-> layer.Opacity]]

\* the draws the last call made, as the log and the canvas show them
DrawsMade ==
    LET d == DrawEvents(ev)
        on == LastDraws(Len(d))
    IN [k \in DOMAIN d |->
           [o |-> d[k].o, e |-> d[k].e, geom |-> on[k].geom, alpha |-> on[k].alpha]]

IsPrefix(s, t) == Len(s) <= Len(t) /\ s = SubSeq(t, 1, Len(s))

\* C13: RenderVisibleLayers draws the visible top-level layers in map
\* order; of each, the tile at index i = y*Width + x once at cell (x, y)
\* if it is not nil, in row-major order, with the layer's opacity; an
\* error ends the draws where it is raised.
C13_VisibleLayersRowMajor ==
    call.op = "RenderVisibleLayers" =>
        LET all == Concat([l \in DOMAIN m.Layers |-> LayerDraws(m, m.Layers[l])])
        IN /\ IsPrefix(DrawsMade, all)
           /\ call.err = nil => DrawsMade = all

\* RenderVisibleLayers of a first layer with tiles at the indices 0, 2, 3
\* and a second with a tile at index 1
C13_Witness ==
    /\ call.op = "RenderVisibleLayers" /\ call.err = nil
    /\ [k \in DOMAIN DrawsMade |-> <<DrawsMade[k].o, DrawsMade[k].e>>]
           = << <<1, 0>>, <<1, 2>>, <<1, 3>>, <<2, 1>> >>
    /\ DrawsMade[2].geom = GetTilePosition(m, 0, 1)
    /\ DrawsMade[4].alpha = Half


---------------------------------------------------------------------------
(* The images TilesetCache returns (maps of CacheMaps, under Spec). *)

\* C14: a successful TilesetCache.GetTileImage returns an image, and it is
\* the sub-image of the tile's own tileset image at the rectangle of the
\* tile's local index.
C14_OwnSubImage ==
    (call.op = "GetTileImage" /\ call.err = nil) =>
        /\ call.img # NoImage
        /\ call.img = SubImage(FilePixels(m.Tilesets[call.a].Image),
                               GetTileRect(m.Tilesets[call.a], call.b))


---------------------------------------------------------------------------
(* The engine (maps of EngineMaps, under SpecEngine). *)

\* the orientation of img under the flags d, h, v, pixel by pixel: the
\* diagonal flip exchanges x and y, then the horizontal flip mirrors the
\* columns and the vertical flip the rows
Oriented(img, d, h, v) ==
    LET wd == IF d THEN ImgH(img) ELSE ImgW(img)
        ht == IF d THEN ImgW(img) ELSE ImgH(img)
    IN [y \in 1..ht |-> [x \in 1..wd |->
           LET x1 == IF h THEN wd + 1 - x ELSE x
               y1 == IF v THEN ht + 1 - y ELSE y
           IN IF d THEN img[x1][y1] ELSE img[y1][x1]]]

\* an image no two of whose eight orientations are the same
NonSymmetric(img) ==
    Cardinality({Oriented(img, d, h, v) : d \in BOOLEAN, h \in BOOLEAN, v \in BOOLEAN}) = 8

\* C15: RotateTileImage makes the diagonal flip (rotate 270, flip
\* horizontally), then the horizontal, then the vertical flip, each if its
\* flag is set: the result is the composition in that order for all eight
\* flag combinations, and for a non-symmetric image the result for
\* {diagonal, horizontal} is neither that of {diagonal} nor of {horizontal}.
C15_FlipOrder ==
    call.op = "RotateTileImage" =>
        LET t == call.a
        IN /\ call.img = Oriented(call.b, t.DiagonalFlip, t.HorizontalFlip,
                                  t.VerticalFlip)
           /\ (t.DiagonalFlip /\ t.HorizontalFlip /\ ~t.VerticalFlip
                  /\ NonSymmetric(call.b)) =>
                  /\ call.img # Oriented(call.b, TRUE, FALSE, FALSE)
                  /\ call.img # Oriented(call.b, FALSE, TRUE, FALSE)

\* the tile of b1.png with the diagonal and the horizontal flag
C15_Witness ==
    /\ call.op = "RotateTileImage"
    /\ call.a.DiagonalFlip /\ call.a.HorizontalFlip /\ ~call.a.VerticalFlip
    /\ call.b = FilePixels("b1.png")
    /\ NonSymmetric(call.b)
    /\ call.img = << << <<ChanMax, ChanMax>>, <<1, ChanMax>> >>,
                     << <<0, ChanMax>>, <<1, ChanMax>> >> >>

\* C20: GetTilePosition(x, y) is the translation by (x*TileWidth,
\* y*TileHeight) followed by a scale step with the factors (x+1)*TileWidth
\* and (y+1)*TileHeight, which scales the translation too; the factors are
\* the identity only if both products are 1.
C20_TilePosition ==
    call.op = "GetTilePosition" =>
        LET fx == (call.a + 1) * m.TileWidth
            fy == (call.b + 1) * m.TileHeight
        IN /\ call.img = [sx |-> <<fx, 1>>, sy |-> <<fy, 1>>, rot |-> 0,
                          tx |-> call.a * m.TileWidth * fx,
                          ty |-> call.b * m.TileHeight * fy]
           /\ (call.img.sx = GeoMIdentity.sx /\ call.img.sy = GeoMIdentity.sy)
                  => fx = 1 /\ fy = 1

\* cell (1, 1) of a map of 2x2 tiles: moved to (2, 2), then scaled by 4
C20_Witness ==
    /\ call.op = "GetTilePosition" /\ call.a = 1 /\ call.b = 1
    /\ m.TileWidth = 2 /\ m.TileHeight = 2
    /\ call.img.sx = <<4, 1>> /\ call.img.sy = <<4, 1>>
    /\ call.img.tx = 8 /\ call.img.ty = 8


\* C16: RenderVisibleLayersAndObjectGroups makes every draw of the visible
\* top-level layers, in map order, before any draw of the visible top-level
\* object groups, in map order; if rendering the layers fails, its error is
\* returned and no object group is rendered.
C16_LayersBeforeObjectGroups ==
    call.op = "RenderVisibleLayersAndObjectGroups" =>
        LET o == Owners(ev)
            layers == Concat([i \in DOMAIN m.Layers |-> LayerOwners(m.Layers[i])])
            groups == Concat([i \in DOMAIN m.ObjectGroups |->
                                 ObjectGroupOwners(m.ObjectGroups[i])])
            alone == RenderVisibleLayers(m, fs, Begin(<< >>, << >>))
        IN /\ \A i, j \in DOMAIN o :
                  (i < j /\ o[i] \in {og.ID : og \in Range(m.ObjectGroups)})
                      => o[j] \notin {l.ID : l \in Range(m.Layers)}
           /\ IsPrefix(o, layers \o groups)
           /\ call.err = nil => o = layers \o groups
           /\ alone.err # nil =>
                  /\ call.err = alone.err
                  /\ \A i \in DOMAIN ev : ev[i].k # "lookup"
                  /\ \A i \in DOMAIN o : o[i] \notin {og.ID : og \in Range(m.ObjectGroups)}

\* three draws of layer 1 and one of layer 2, then one of object group 7
\* and two of object group 9
C16_Witness ==
    /\ call.op = "RenderVisibleLayersAndObjectGroups" /\ call.err = nil
    /\ Owners(ev) = <<1, 1, 1, 2, 7, 9, 9>>

\* the layers fail at a tile of the second one: no object group is rendered
C16_WitnessFailure ==
    /\ call.op = "RenderVisibleLayersAndObjectGroups" /\ call.err = ErrTileNotFound
    /\ Owners(ev) = <<1, 1, 1, 2>>
    /\ \A i \in DOMAIN m.ObjectGroups : m.ObjectGroups[i].Visible


\* C17: once the renderer is constructed, the canvas is Width*TileWidth
\* wide and Height*TileHeight high after every call; a Clear leaves a blank
\* canvas of that size with none of the earlier draws, and the tile cache
\* as it was.
C17_CanvasSize ==
    [][ /\ r' = "ok" => /\ Result'.w = m.Width * m.TileWidth
                        /\ Result'.h = m.Height * m.TileHeight
        /\ call'.op = "Clear" =>
               /\ Result'.draws = << >>
               /\ Raster(Result') = [y \in 1..(m.Height * m.TileHeight) |->
                                        [x \in 1..(m.Width * m.TileWidth) |-> <<0, 0>>]]
               /\ tileCache' = tileCache ]_vars

\* a Clear of the 2x4 canvas after renders that filled the tile cache
C17_Witness ==
    /\ call.op = "Clear" /\ r = "ok"
    /\ Result = [w |-> 2, h |-> 4, draws |-> << >>]
    /\ DOMAIN tileCache = {1, 2, 4, 5, 6, 7}


---------------------------------------------------------------------------
(* Flips and the tile cache (maps of LayerMaps, under SpecLayers). *)

\* the image of tile id of tileset ts as its file holds it: the file of a
\* per-tile image, or the tile's pixels in the shared image
Untransformed(ts, id) ==
    IF ts.Image = "" THEN FilePixels(ts.Tiles[id])
    ELSE [y \in 1..ts.TileHeight |-> [x \in 1..ts.TileWidth |->
             FilePixels(ts.Image)[(id \div ts.Columns) * ts.TileHeight + y]
                                 [(id % ts.Columns) * ts.TileWidth + x]]]

\* the image a tile is to resolve to
TileImage(mp, tile) ==
    Oriented(Untransformed(mp.Tilesets[tile.Tileset], tile.ID),
             tile.DiagonalFlip, tile.HorizontalFlip, tile.VerticalFlip)

\* C18: the image getTileImage returns for a tile is its tileset's image
\* of its local index under its own three flips, whatever the cache holds
\* (a miss or a hit, whichever tiles were resolved before); the cache's
\* entries are the untransformed images.
C18_FlipsIndependentOfCache ==
    /\ \A k \in DOMAIN tileCache :
           \E t \in DOMAIN m.Tilesets :
              /\ (k - m.Tilesets[t].FirstGID) \in 0..(m.Tilesets[t].TileCount - 1)
              /\ tileCache[k] = Untransformed(m.Tilesets[t], k - m.Tilesets[t].FirstGID)
    /\ r = "ok" =>
           \A tile \in MapTiles(m) :
              \A R \in {getTileImage(m, fs, tileCache, tile)} :
                 R.err = nil => R.img = TileImage(m, tile)
    /\ (call.op = "getTileImage" /\ call.err = nil) =>
           \E tile \in MapTiles(m) :
              /\ tile.Tileset = call.a /\ tile.ID = call.b
              /\ call.img = TileImage(m, tile)

\* a cache hit for the tile of b0.png: the image returned is flipped
\* vertically, the cached one is not
C18_Witness ==
    /\ call.op = "getTileImage" /\ call.a = TsB /\ call.b = 0 /\ call.err = nil
    /\ Len(ev) = 1
    /\ tileCache[1] = FilePixels("b0.png")
    /\ call.img = << << <<0, ChanMax>>, <<1, ChanMax>> >>,
                     << <<ChanMax, ChanMax>>, <<0, ChanMax>> >> >>
    /\ \E i \in DOMAIN Result.draws : Result.draws[i].img = FilePixels("b0.png")


---------------------------------------------------------------------------
(* Indices of every sign (maps of GroupMaps, under SpecGroups). *)

Accessors ==
    {"RenderLayer", "RenderGroup", "RenderGroupLayer", "RenderObjectGroup",
     "RenderGroupObjectGroup"}

\* the call's index, or both of its indices, name an element
InBounds(c) ==
    CASE c.op = "RenderLayer" -> InRange(c.a, m.Layers)
      [] c.op = "RenderGroup" -> InRange(c.a, m.Groups)
      [] c.op = "RenderObjectGroup" -> InRange(c.a, m.ObjectGroups)
      [] c.op = "RenderGroupLayer" ->
             InRange(c.a, m.Groups) /\ InRange(c.b, m.Groups[c.a + 1].Layers)
      [] c.op = "RenderGroupObjectGroup" ->
             InRange(c.a, m.Groups) /\ InRange(c.b, m.Groups[c.a + 1].ObjectGroups)
      [] OTHER -> FALSE

\* C19: an indexed accessor called with any integer index, negative ones
\* included, renders the element at an index within 0 .. length-1 or
\* returns ErrOutOfBounds: it never indexes a sequence outside its bounds.
C19_AnyIndex ==
    call.op \in Accessors =>
        /\ call.err # Panic
        /\ call.err # ErrOutOfBounds => InBounds(call)


=============================================================================
